---- MODULE Spec2Model ----
(***************************************************************************)
(* Execution-span engine of interface-core: the span factory and finalizer *)
(* (execution/span-manager.ts) and the graph assembler, structural         *)
(* validator and result builder (execution/validator.ts).                  *)
(*                                                                         *)
(* Spans are mutable objects; the heap `spans` holds them, and a heap      *)
(* index is an object reference (what a `children` array holds).  Strings  *)
(* built by template literals are sequences of words, so that "a message   *)
(* mentions a phrase" is containment of one sequence in another.           *)
(* A nullable value is <<>> (null) or <<v>>.                               *)
(***************************************************************************)
EXTENDS Integers, Sequences, FiniteSets, TLC

VARIABLES
    spans,      \* the heap of ExecutionSpan objects, in order of creation
    uuids,      \* how many identifiers randomUUID() has handed out
    now,        \* the reading of the wall clock (Date), in clock ticks
    raised,     \* TRUE iff the last call ended by throwing
    result,     \* what the last assembler/validator/builder call returned
    executionContext,   \* of each adapter instance: its executionContext field
    lastSpans,          \* of each adapter instance: its lastSpans field
    callers     \* of each caller of an adapter: where it is and what it holds

vars == <<spans, uuids, now, raised, result, executionContext, lastSpans, callers>>

----------------------------------------------------------------------------
(* Bounds of the model *)

MaxSpans == 2
MaxTime == 2
MaxTreeSpans == 4
MaxExecIds == 1
MaxArtifacts == 1
MaxEntries == 3

----------------------------------------------------------------------------
(* Values *)

SpanType == {"core", "repo", "agent"}

SpanStatus == {"success", "failed", "pending"}

Null == <<>>

Some(v) == <<v>>

\* An optional argument (artifacts?, evidence?, executionId?) left out.
Absent == [given |-> FALSE]

Given(v) == [given |-> TRUE, value |-> v]

\* randomUUID(): the k-th identifier drawn differs from every other one.
randomUUID(k) == "uuid-" \o ToString(k)

generateSpanId(k) == randomUUID(k)

generateExecutionId(k) == randomUUID(k)

Q == "\""

Quoted(words) == <<Q>> \o words \o <<Q>>

\* `${x}` of a string | null value
Interpolate(opt) == IF opt = Null THEN <<"null">> ELSE opt

NoResult == [op |-> "none"]

----------------------------------------------------------------------------
(* span-manager.ts *)

createSpan(type, name, parentSpanId, id, t) ==
    [ span_id        |-> id,
      parent_span_id |-> parentSpanId,
      type           |-> type,
      name           |-> name,
      start_time     |-> t,
      end_time       |-> Null,
      status         |-> "pending",
      artifacts      |-> <<>>,
      evidence       |-> <<>>,
      children       |-> <<>> ]

\* the parent of a core span dropped
createCoreSpan_DropsParent(name, parentSpanId, id, t) ==
    createSpan("core", name, Null, id, t)

\* parentSpanId ?? null
createCoreSpan(name, parentSpanId, id, t) ==
    createSpan("core", name,
               IF parentSpanId.given THEN Some(parentSpanId.value) ELSE Null, id, t)

createRepoSpan(repoName, parentSpanId, id, t) ==
    createSpan("repo", repoName, Some(parentSpanId), id, t)

createAgentSpan(agentName, parentSpanId, id, t) ==
    createSpan("agent", agentName, Some(parentSpanId), id, t)

\* the lists replaced by the supplied ones instead of extended
finalizeSpan_Replaces(span, status, artifacts, evidence, t) ==
    [ span EXCEPT
        !.end_time  = Some(t),
        !.status    = status,
        !.artifacts = IF artifacts.given THEN artifacts.value ELSE @,
        !.evidence  = IF evidence.given THEN evidence.value ELSE @ ]

\* The span after finalizeSpan(span, status, artifacts?, evidence?) when the
\* clock reads t.  The function has no throw on any path.
finalizeSpan(span, status, artifacts, evidence, t) ==
    [ span EXCEPT
        !.end_time  = Some(t),
        !.status    = status,
        !.artifacts = IF artifacts.given THEN @ \o artifacts.value ELSE @,
        !.evidence  = IF evidence.given THEN @ \o evidence.value ELSE @ ]

\* The three arguments are stored as they come: an argument left out or
\* empty is stored like any other.  The function has no check and no throw.
buildExecutionContext(executionId, coreSpanId, parentSpanId) ==
    [ execution_id   |-> executionId,
      parent_span_id |-> parentSpanId,
      core_span_id   |-> coreSpanId ]

----------------------------------------------------------------------------
(* validator.ts *)

RECURSIVE Flatten(_)
\* spans.push(...a), spans.push(...b), ... : the parts of ss, one after another
Flatten(ss) == IF ss = <<>> THEN <<>> ELSE Head(ss) \o Flatten(Tail(ss))

\* children.filter(c => c.type === type) over the heap h
ChildrenOfType(h, r, type) ==
    SelectSeq(h[r].children, LAMBDA c : h[c].type = type)

\* children.filter(c => c.type !== type)
ChildrenNotOfType(h, r, type) ==
    SelectSeq(h[r].children, LAMBDA c : h[c].type # type)

RootTypeMsg(span) ==
    <<"Root", "span", "type", "is">> \o Quoted(<<span.type>>)
        \o <<",", "expected">> \o Quoted(<<"core">>)

ZeroRepoMsg == <<"Core", "span", "has", "zero", "repo-level", "child", "spans">>

RepoParentMsg(repoSpan, coreSpan) ==
    <<"Repo", "span">> \o Quoted(repoSpan.name)
        \o <<"parent_span_id">> \o Quoted(Interpolate(repoSpan.parent_span_id))
        \o <<"does", "not", "match", "core", "span_id">>
        \o Quoted(<<coreSpan.span_id>>)

ZeroAgentMsg(repoSpan) ==
    <<"Repo", "span">> \o Quoted(repoSpan.name)
        \o <<"has", "zero", "agent-level", "child", "spans">>

AgentParentMsg(agentSpan, repoSpan) ==
    <<"Agent", "span">> \o Quoted(agentSpan.name)
        \o <<"parent_span_id">> \o Quoted(Interpolate(agentSpan.parent_span_id))
        \o <<"does", "not", "match", "repo", "span_id">>
        \o Quoted(<<repoSpan.span_id>>)

NonRepoChildMsg(invalid) ==
    <<"Core", "span", "has", "non-repo", "child">> \o Quoted(invalid.name)
        \o <<"of", "type">> \o Quoted(<<invalid.type>>)

\* the root also required to be finalized
RootTypeFailures_OrPending(h, r) ==
    IF h[r].type # "core" \/ h[r].status = "pending"
    THEN <<RootTypeMsg(h[r])>> ELSE <<>>

\* if (coreSpan.type !== 'core') failures.push(...)
RootTypeFailures(h, r) ==
    IF h[r].type # "core" THEN <<RootTypeMsg(h[r])>> ELSE <<>>

\* the zero-repo check left out
ZeroRepoFailures_Never(h, r) == <<>>

\* the zero-repo check made on all the children instead of the repo children
ZeroRepoFailures_AnyChild(h, r) ==
    IF Len(h[r].children) = 0 THEN <<ZeroRepoMsg>> ELSE <<>>

\* the zero-repo check merged with the non-repo-child check
ZeroRepoFailures_OrStray(h, r) ==
    IF Len(ChildrenOfType(h, r, "repo")) = 0
       \/ Len(ChildrenNotOfType(h, r, "repo")) > 0
    THEN <<ZeroRepoMsg>> ELSE <<>>

\* if (repoChildren.length === 0) failures.push(...)
ZeroRepoFailures(h, r) ==
    IF Len(ChildrenOfType(h, r, "repo")) = 0 THEN <<ZeroRepoMsg>> ELSE <<>>

\* the agent's parent_span_id compared with the agent's own span_id
AgentParentFailures_OwnId(h, c) ==
    LET agentChildren == ChildrenOfType(h, c, "agent")
    IN  Flatten([i \in 1..Len(agentChildren) |->
                  IF h[agentChildren[i]].parent_span_id
                        # Some(h[agentChildren[i]].span_id)
                  THEN <<AgentParentMsg(h[agentChildren[i]], h[c])>>
                  ELSE <<>>])

\* the inner loop: one failure per agent child whose parent_span_id is not
\* the repo span's span_id
AgentParentFailures(h, c) ==
    LET agentChildren == ChildrenOfType(h, c, "agent")
    IN  Flatten([i \in 1..Len(agentChildren) |->
                  IF h[agentChildren[i]].parent_span_id # Some(h[c].span_id)
                  THEN <<AgentParentMsg(h[agentChildren[i]], h[c])>>
                  ELSE <<>>])

\* the comparison of the repo span's parent_span_id with the core span_id
\* left out
RepoSpanFailures_NoParentCheck(h, r, c) ==
    (IF Len(ChildrenOfType(h, c, "agent")) = 0
     THEN <<ZeroAgentMsg(h[c])>> ELSE <<>>)
    \o AgentParentFailures(h, c)

\* the zero-agent check skipped (else if) when the parent id already failed
RepoSpanFailures_ElseIf(h, r, c) ==
    (IF h[c].parent_span_id # Some(h[r].span_id)
     THEN <<RepoParentMsg(h[c], h[r])>>
     ELSE IF Len(ChildrenOfType(h, c, "agent")) = 0
          THEN <<ZeroAgentMsg(h[c])>> ELSE <<>>)
    \o AgentParentFailures(h, c)

\* the body of `for (const repoSpan of repoChildren)` for the repo child c
RepoSpanFailures(h, r, c) ==
    (IF h[c].parent_span_id # Some(h[r].span_id)
     THEN <<RepoParentMsg(h[c], h[r])>> ELSE <<>>)
    \o (IF Len(ChildrenOfType(h, c, "agent")) = 0
        THEN <<ZeroAgentMsg(h[c])>> ELSE <<>>)
    \o AgentParentFailures(h, c)

\* one failure for all the non-repo children together
InvalidCoreChildFailures_OnlyFirst(h, r) ==
    LET invalidCoreChildren == ChildrenNotOfType(h, r, "repo")
    IN  IF invalidCoreChildren = <<>> THEN <<>>
        ELSE <<NonRepoChildMsg(h[Head(invalidCoreChildren)])>>

\* the children of the root that are not repo spans never reported
InvalidCoreChildFailures_Never(h, r) == <<>>

\* for (const invalid of invalidCoreChildren) failures.push(...)
InvalidCoreChildFailures(h, r) ==
    LET invalidCoreChildren == ChildrenNotOfType(h, r, "repo")
    IN  [i \in 1..Len(invalidCoreChildren) |->
            NonRepoChildMsg(h[invalidCoreChildren[i]])]

\* the loop over the repo children left after the first repo child
validateExecutionGraph_FirstRepoOnly(h, r) ==
    LET repoChildren == ChildrenOfType(h, r, "repo")
        failures ==
            RootTypeFailures(h, r)
            \o ZeroRepoFailures(h, r)
            \o (IF repoChildren = <<>> THEN <<>>
                ELSE RepoSpanFailures(h, r, Head(repoChildren)))
            \o InvalidCoreChildFailures(h, r)
    IN  [valid |-> Len(failures) = 0, failures |-> failures]

\* the validation ended at the root when the root is not a core span
validateExecutionGraph_StopsAtRoot(h, r) ==
    LET repoChildren == ChildrenOfType(h, r, "repo")
        failures ==
            IF h[r].type # "core" THEN RootTypeFailures(h, r)
            ELSE ZeroRepoFailures(h, r)
                 \o Flatten([i \in 1..Len(repoChildren) |->
                               RepoSpanFailures(h, r, repoChildren[i])])
                 \o InvalidCoreChildFailures(h, r)
    IN  [valid |-> Len(failures) = 0, failures |-> failures]

validateExecutionGraph(h, r) ==
    LET repoChildren == ChildrenOfType(h, r, "repo")
        failures ==
            RootTypeFailures(h, r)
            \o ZeroRepoFailures(h, r)
            \o Flatten([i \in 1..Len(repoChildren) |->
                          RepoSpanFailures(h, r, repoChildren[i])])
            \o InvalidCoreChildFailures(h, r)
    IN  [valid |-> Len(failures) = 0, failures |-> failures]

\* the root and its direct children only
collectAllSpans_DirectChildren(h, r) == <<r>> \o h[r].children

\* the children of a span collected before the spans below them
RECURSIVE collectAllSpans_SiblingsFirst(_, _)
collectAllSpans_SiblingsFirst(h, r) ==
    <<r>> \o h[r].children
        \o Flatten([i \in 1..Len(h[r].children) |->
                      Tail(collectAllSpans_SiblingsFirst(h, h[r].children[i]))])

RECURSIVE collectAllSpans(_, _)
collectAllSpans(h, r) ==
    <<r>> \o Flatten([i \in 1..Len(h[r].children) |->
                        collectAllSpans(h, h[r].children[i])])

\* only the first failure of the validator kept
buildExecutionGraph_FirstReasonOnly(h, r, executionId, k, t) ==
    LET validation == validateExecutionGraph(h, r)
        allSpans == collectAllSpans(h, r)
    IN  [ execution_id    |-> IF executionId.given THEN executionId.value
                              ELSE generateExecutionId(k + 1),
          root_span       |-> r,
          all_spans       |-> allSpans,
          created_at      |-> t,
          valid           |-> validation.valid,
          failure_reasons |-> IF validation.failures = <<>> THEN <<>>
                              ELSE <<Head(validation.failures)>> ]

\* executionId ?? generateExecutionId(): k identifiers were drawn before.
buildExecutionGraph(h, r, executionId, k, t) ==
    LET validation == validateExecutionGraph(h, r)
        allSpans == collectAllSpans(h, r)
    IN  [ execution_id    |-> IF executionId.given THEN executionId.value
                              ELSE generateExecutionId(k + 1),
          root_span       |-> r,
          all_spans       |-> allSpans,
          created_at      |-> t,
          valid           |-> validation.valid,
          failure_reasons |-> validation.failures ]

\* the status not forced to failed on an invalid graph
buildExecutionResult_KeepsRootStatus(h, r, coreName, executionId, k, t) ==
    LET execId == IF executionId.given THEN executionId.value
                  ELSE generateExecutionId(k + 1)
        graph == buildExecutionGraph(h, r, Given(execId), k, t)
    IN  [ core_name       |-> coreName,
          execution_id    |-> execId,
          status          |-> h[r].status,
          execution_graph |-> graph,
          failure_reasons |-> graph.failure_reasons ]

\* the executionId argument, not execId, handed to buildExecutionGraph
buildExecutionResult_GraphDrawsOwnId(h, r, coreName, executionId, k, t) ==
    LET execId == IF executionId.given THEN executionId.value
                  ELSE generateExecutionId(k + 1)
        graph == buildExecutionGraph(h, r, executionId, k + 1, t)
        status == IF ~graph.valid THEN "failed" ELSE h[r].status
    IN  [ core_name       |-> coreName,
          execution_id    |-> execId,
          status          |-> status,
          execution_graph |-> graph,
          failure_reasons |-> graph.failure_reasons ]

\* the status of the result lowered to failed by a failed span anywhere in
\* the tree
buildExecutionResult_AnyFailedSpan(h, r, coreName, executionId, k, t) ==
    LET execId == IF executionId.given THEN executionId.value
                  ELSE generateExecutionId(k + 1)
        graph == buildExecutionGraph(h, r, Given(execId), k, t)
        allSpans == graph.all_spans
        status == IF ~graph.valid THEN "failed"
                  ELSE IF \E i \in 1..Len(allSpans) : h[allSpans[i]].status = "failed"
                       THEN "failed"
                       ELSE h[r].status
    IN  [ core_name       |-> coreName,
          execution_id    |-> execId,
          status          |-> status,
          execution_graph |-> graph,
          failure_reasons |-> graph.failure_reasons ]

buildExecutionResult(h, r, coreName, executionId, k, t) ==
    LET execId == IF executionId.given THEN executionId.value
                  ELSE generateExecutionId(k + 1)
        graph == buildExecutionGraph(h, r, Given(execId), k, t)
        status == IF ~graph.valid THEN "failed" ELSE h[r].status
    IN  [ core_name       |-> coreName,
          execution_id    |-> execId,
          status          |-> status,
          execution_graph |-> graph,
          failure_reasons |-> graph.failure_reasons ]

----------------------------------------------------------------------------
(* The operations, as steps on the heap *)

Refs == 1..Len(spans)

\* c is reachable from a through children lists (a itself included)
RECURSIVE Reaches(_, _, _)
Reaches(h, a, c) ==
    \/ a = c
    \/ \E i \in 1..Len(h[a].children) : Reaches(h, h[a].children[i], c)

HasOwner(h, c) ==
    \E p \in 1..Len(h) : \E i \in 1..Len(h[p].children) : h[p].children[i] = c

Tick ==
    /\ now < MaxTime
    /\ now' = now + 1
    /\ UNCHANGED <<spans, uuids, raised, result, executionContext, lastSpans, callers>>

CreateCoreSpan(name, parentSpanId) ==
    /\ Len(spans) < MaxSpans
    /\ spans' = Append(spans,
                  createCoreSpan(name, parentSpanId, generateSpanId(uuids + 1), now))
    /\ uuids' = uuids + 1
    /\ raised' = FALSE
    /\ UNCHANGED <<now, result, executionContext, lastSpans, callers>>

CreateRepoSpan(repoName, parentSpanId) ==
    /\ Len(spans) < MaxSpans
    /\ spans' = Append(spans,
                  createRepoSpan(repoName, parentSpanId, generateSpanId(uuids + 1), now))
    /\ uuids' = uuids + 1
    /\ raised' = FALSE
    /\ UNCHANGED <<now, result, executionContext, lastSpans, callers>>

CreateAgentSpan(agentName, parentSpanId) ==
    /\ Len(spans) < MaxSpans
    /\ spans' = Append(spans,
                  createAgentSpan(agentName, parentSpanId, generateSpanId(uuids + 1), now))
    /\ uuids' = uuids + 1
    /\ raised' = FALSE
    /\ UNCHANGED <<now, result, executionContext, lastSpans, callers>>

\* The owner of a span attaches it: p.children.push(c).  A span is attached
\* once and ownership is top-down, so the heap stays a forest.
AppendChild(p, c) ==
    /\ p \in Refs /\ c \in Refs
    /\ ~HasOwner(spans, c)
    /\ ~Reaches(spans, c, p)
    /\ spans' = [spans EXCEPT ![p].children = Append(@, c)]
    /\ raised' = FALSE
    /\ UNCHANGED <<uuids, now, result, executionContext, lastSpans, callers>>

\* the children of the span finalized along with it
FinalizeSpan_Cascades(s, status, artifacts, evidence) ==
    /\ s \in Refs
    /\ spans' = [i \in 1..Len(spans) |->
                   IF i = s \/ \E k \in 1..Len(spans[s].children) :
                                  spans[s].children[k] = i
                   THEN finalizeSpan(spans[i], status, artifacts, evidence, now)
                   ELSE spans[i]]
    /\ raised' = FALSE
    /\ UNCHANGED <<uuids, now, result, executionContext, lastSpans, callers>>

FinalizeSpan(s, status, artifacts, evidence) ==
    /\ s \in Refs
    /\ spans' = [spans EXCEPT ![s] = finalizeSpan(@, status, artifacts, evidence, now)]
    /\ raised' = FALSE
    /\ UNCHANGED <<uuids, now, result, executionContext, lastSpans, callers>>

ValidateExecutionGraph(r) ==
    /\ r \in Refs
    /\ result' = [op |-> "validateExecutionGraph", root |-> r,
                  value |-> validateExecutionGraph(spans, r)]
    /\ raised' = FALSE
    /\ UNCHANGED <<spans, uuids, now, executionContext, lastSpans, callers>>

\* the assembler clearing the parent_span_id of the spans it collects
CollectAllSpans_DropsParentIds(r) ==
    /\ r \in Refs
    /\ result' = [op |-> "collectAllSpans", root |-> r,
                  value |-> collectAllSpans(spans, r)]
    /\ spans' = [i \in 1..Len(spans) |->
                   IF Reaches(spans, r, i)
                   THEN [spans[i] EXCEPT !.parent_span_id = Null]
                   ELSE spans[i]]
    /\ raised' = FALSE
    /\ UNCHANGED <<uuids, now, executionContext, lastSpans, callers>>

CollectAllSpans(r) ==
    /\ r \in Refs
    /\ result' = [op |-> "collectAllSpans", root |-> r,
                  value |-> collectAllSpans(spans, r)]
    /\ raised' = FALSE
    /\ UNCHANGED <<spans, uuids, now, executionContext, lastSpans, callers>>

BuildExecutionResult(r, coreName, executionId) ==
    /\ r \in Refs
    /\ executionId.given \/ uuids < Len(spans) + MaxExecIds
    /\ result' = [op |-> "buildExecutionResult", root |-> r,
                  value |-> buildExecutionResult(spans, r, coreName, executionId,
                                                 uuids, now)]
    /\ uuids' = IF executionId.given THEN uuids ELSE uuids + 1
    /\ raised' = FALSE
    /\ UNCHANGED <<spans, now, executionContext, lastSpans, callers>>

BuildExecutionContext(executionId, coreSpanId, parentSpanId) ==
    /\ result' = [op |-> "buildExecutionContext",
                  value |-> buildExecutionContext(executionId, coreSpanId,
                                                  parentSpanId)]
    /\ raised' = FALSE
    /\ UNCHANGED <<spans, uuids, now, executionContext, lastSpans, callers>>

----------------------------------------------------------------------------
(* Inputs *)

CoreName == <<"interface-core">>

\* the names the callers give to spans, by tier
TierName(type) ==
    CASE type = "core"  -> CoreName
      [] type = "repo"  -> <<"LLM-Config-Manager">>
      [] type = "agent" -> <<"config-manager:getConfig">>

\* a name that repeats the words of a validator message
PhraseName == <<"zero", "repo-level", "child", "spans">>

\* the parent id an adapter uses when it was given no context
UnknownParent == "unknown"

SpanIds(h) == {h[i].span_id : i \in 1..Len(h)}

ExecutionIdArgs == {Absent, Given("exec-1")}

\* the parent a caller gives to createCoreSpan: none for the outermost
\* operation, the span_id of a span of the heap for a nested one
CoreParentArgs(h) == {Absent} \cup {Given(id) : id \in SpanIds(h)}

\* the identifiers a caller hands to buildExecutionContext: one of ids, the
\* empty string, or nothing
ContextArgs(ids) == {Absent, Given("")} \cup {Given(id) : id \in ids}

CoreSpanIds(h) == {h[i].span_id : i \in {j \in 1..Len(h) : h[j].type = "core"}}

----------------------------------------------------------------------------
(* The adapters (config-manager, connector-hub, forge) and their callers. *)
(* An adapter instance keeps the context it was last given and the spans  *)
(* of its last operation.  An operation has no await: it runs from its    *)
(* first statement to its return or throw in one step.  A caller sets its  *)
(* context, or not, starts one operation, and after awaiting it reads     *)
(* the last spans; other callers run at its awaits.                        *)

Adapters == {"config-manager", "connector-hub", "forge"}

Callers == {"A", "B"}

\* getConfig, connectProvider, generateInterface
OperationName(a) ==
    CASE a = "config-manager" -> <<"config-manager:getConfig">>
      [] a = "connector-hub"  -> <<"connector-hub:connectProvider">>
      [] a = "forge"          -> <<"forge:generateInterface">>

\* what the operation passes to finalizeSpan(span, 'success', ...)
SuccessArtifacts(a) == IF a = "connector-hub" THEN Given(<<>>) ELSE Absent

SuccessEvidence(a) ==
    IF a = "connector-hub" THEN Given(<<"connectionId">>) ELSE Absent

\* this.executionContext?.parent_span_id ?? 'unknown'
ContextParent(context) ==
    IF context = Null THEN UnknownParent
    ELSE IF context[1].parent_span_id.given
         THEN context[1].parent_span_id.value
         ELSE UnknownParent

\* the catch block left out: the span of a throwing operation stays pending
OperationSpan_NoCatch(a, context, throws, id, t) ==
    LET span == createAgentSpan(OperationName(a), ContextParent(context), id, t)
    IN  IF throws
        THEN span
        ELSE finalizeSpan(span, "success", SuccessArtifacts(a),
                          SuccessEvidence(a), t)

\* the span an operation leaves when its try block throws, or does not
OperationSpan(a, context, throws, id, t) ==
    LET span == createAgentSpan(OperationName(a), ContextParent(context), id, t)
    IN  IF throws
        THEN finalizeSpan(span, "failed", Absent, Absent, t)
        ELSE finalizeSpan(span, "success", SuccessArtifacts(a),
                          SuccessEvidence(a), t)

IdleCaller(a) ==
    [pc |-> "idle", adapter |-> a, context |-> Null, span |-> Null, read |-> Null]

\* no adapter has been used
AdapterInit ==
    /\ executionContext = [a \in Adapters |-> Null]
    /\ lastSpans = [a \in Adapters |-> <<>>]
    /\ callers = [c \in Callers |-> IdleCaller("config-manager")]

\* the caller c hands its context to its adapter
SetExecutionContext(c, context) ==
    /\ callers[c].pc = "idle"
    /\ executionContext' =
          [executionContext EXCEPT ![callers[c].adapter] = Some(context)]
    /\ callers' = [callers EXCEPT ![c].pc = "set", ![c].context = Some(context)]
    /\ raised' = FALSE
    /\ UNCHANGED <<spans, uuids, now, result, lastSpans>>

\* the caller c runs an operation of its adapter, whose try block throws or
\* does not
Operation(c, throws) ==
    LET a == callers[c].adapter
    IN  /\ callers[c].pc \in {"idle", "set"}
        /\ spans' = Append(spans,
                      OperationSpan(a, executionContext[a], throws,
                                    generateSpanId(uuids + 1), now))
        /\ uuids' = uuids + 1
        /\ lastSpans' = [lastSpans EXCEPT ![a] = <<Len(spans) + 1>>]
        /\ callers' = [callers EXCEPT ![c].pc = "done",
                                      ![c].span = Some(Len(spans) + 1)]
        /\ raised' = throws
        /\ UNCHANGED <<now, result, executionContext>>

\* the caller c, its operation over, reads the spans of the last operation
GetLastExecutionSpans(c) ==
    /\ callers[c].pc = "done"
    /\ callers' = [callers EXCEPT ![c].pc = "read",
                                  ![c].read = Some(lastSpans[callers[c].adapter])]
    /\ raised' = FALSE
    /\ UNCHANGED <<spans, uuids, now, result, executionContext, lastSpans>>

----------------------------------------------------------------------------
(* Spec: the span life cycle.  Spans of every tier are created, attached  *)
(* and finalized in any order while the clock advances.                   *)

Init ==
    /\ spans = <<>>
    /\ uuids = 0
    /\ now = 0
    /\ raised = FALSE
    /\ result = NoResult
    /\ AdapterInit

Next ==
    \/ Tick
    \/ \E parent \in CoreParentArgs(spans) :
          CreateCoreSpan(TierName("core"), parent)
    \/ \E parent \in SpanIds(spans) \cup {UnknownParent} :
          CreateRepoSpan(TierName("repo"), parent)
    \/ \E parent \in SpanIds(spans) \cup {UnknownParent} :
          CreateAgentSpan(TierName("agent"), parent)
    \/ \E p \in Refs, c \in Refs : AppendChild(p, c)
    \/ \E s \in Refs, status \in SpanStatus : FinalizeSpan(s, status, Absent, Absent)

Spec == Init /\ [][Next]_vars

----------------------------------------------------------------------------
(* SpecGraph: the span life cycle together with the context builder and   *)
(* the result builder, all at one reading of the clock.  Spans are        *)
(* created, attached and finalized, with or without an artifact, before   *)
(* and after contexts and results are built.                               *)

ArtifactArgs == {Absent, Given(<<"artifact-1">>)}

NextGraph ==
    \/ CreateCoreSpan(TierName("core"), Absent)
    \/ \E parent \in SpanIds(spans) \cup {UnknownParent} :
          CreateRepoSpan(TierName("repo"), parent)
    \/ \E parent \in SpanIds(spans) \cup {UnknownParent} :
          CreateAgentSpan(TierName("agent"), parent)
    \/ \E p \in Refs, c \in Refs : AppendChild(p, c)
    \/ \E s \in Refs, status \in SpanStatus, artifacts \in ArtifactArgs :
          /\ artifacts.given => Len(spans[s].artifacts) < MaxArtifacts
          /\ FinalizeSpan(s, status, artifacts, Absent)
    \/ \E executionId \in ContextArgs({"exec-1"}),
          coreSpanId \in ContextArgs(CoreSpanIds(spans)),
          parentSpanId \in ContextArgs(SpanIds(spans)) :
          BuildExecutionContext(executionId, coreSpanId, parentSpanId)
    \/ \E r \in Refs, executionId \in ExecutionIdArgs :
          BuildExecutionResult(r, CoreName, executionId)

SpecGraph == Init /\ [][NextGraph]_vars

----------------------------------------------------------------------------
(* SpecFinalize: spans are created and finalized, once or several times,  *)
(* with and without artifacts and evidence, all at one reading of the     *)
(* clock.                                                                  *)

ArtifactLists ==
    {Absent, Given(<<"artifact-1">>), Given(<<"artifact-2", "artifact-3">>)}

EvidenceLists == {Absent, Given(<<"evidence-1">>)}

NextFinalize ==
    \/ \E parent \in CoreParentArgs(spans) :
          CreateCoreSpan(TierName("core"), parent)
    \/ \E parent \in SpanIds(spans) \cup {UnknownParent} :
          CreateRepoSpan(TierName("repo"), parent)
    \/ \E parent \in SpanIds(spans) \cup {UnknownParent} :
          CreateAgentSpan(TierName("agent"), parent)
    \/ \E s \in Refs, status \in SpanStatus,
          artifacts \in ArtifactLists, evidence \in EvidenceLists :
          /\ artifacts.given
                => Len(spans[s].artifacts) + Len(artifacts.value) <= MaxEntries
          /\ evidence.given
                => Len(spans[s].evidence) + Len(evidence.value) <= MaxEntries
          /\ FinalizeSpan(s, status, artifacts, evidence)

SpecFinalize == Init /\ [][NextFinalize]_vars

----------------------------------------------------------------------------
(* SpecAdapter: two traced operations, each with a core span and a repo   *)
(* span of its own, call adapters: the same instance or different ones.   *)

\* the core span and the repo span of the caller whose spans are k+1, k+2
CallerSpans(k) ==
    << [createCoreSpan(CoreName, Absent, generateSpanId(k + 1), 0)
           EXCEPT !.children = <<k + 2>>],
       createRepoSpan(TierName("repo"), generateSpanId(k + 1),
                      generateSpanId(k + 2), 0) >>

CallerCore(c) == IF c = "A" THEN 1 ELSE 3

CallerRepo(c) == CallerCore(c) + 1

\* the context a caller builds for the adapter: spans emitted by the
\* operation are to be children of the caller's repo span
CallerContext(h, c) ==
    buildExecutionContext(Given("exec-" \o c),
                          Given(h[CallerCore(c)].span_id),
                          Given(h[CallerRepo(c)].span_id))

InitAdapter ==
    /\ spans = CallerSpans(0) \o CallerSpans(2)
    /\ uuids = 4
    /\ now = 0
    /\ raised = FALSE
    /\ result = NoResult
    /\ executionContext = [a \in Adapters |-> Null]
    /\ lastSpans = [a \in Adapters |-> <<>>]
    /\ \E used \in [Callers -> Adapters] :
          callers = [c \in Callers |-> IdleCaller(used[c])]

NextAdapter ==
    \/ \E c \in Callers : SetExecutionContext(c, CallerContext(spans, c))
    \/ \E c \in Callers, throws \in BOOLEAN : Operation(c, throws)
    \/ \E c \in Callers : GetLastExecutionSpans(c)

SpecAdapter == InitAdapter /\ [][NextAdapter]_vars

----------------------------------------------------------------------------
(* SpecTree: the assembler, the validator and the result builder applied  *)
(* to span trees.  A tree of n spans is built with the factory, its spans  *)
(* created in order 1..n at clock 0, each attached to its owner, and the   *)
(* spans that are finalized are finalized at clock 1.                      *)

\* owner[i] is the span that holds span i in its children list (0: none)
TreeShapes(n) ==
    {owner \in [1..n -> 0..(n - 1)] :
        /\ owner[1] = 0
        /\ \A i \in 2..n : owner[i] \in 1..(i - 1)}

\* what the caller passes as parent id: the owner's span_id, or not
ParentArg(owner, i, declared) ==
    IF owner[i] # 0 /\ declared[i]
    THEN Given(generateSpanId(owner[i]))
    ELSE Absent

CreatedSpan(type, name, parentArg, i) ==
    CASE type = "core" ->
            createCoreSpan(name, parentArg, generateSpanId(i), 0)
      [] type = "repo" ->
            createRepoSpan(name,
                IF parentArg.given THEN parentArg.value ELSE UnknownParent,
                generateSpanId(i), 0)
      [] type = "agent" ->
            createAgentSpan(name,
                IF parentArg.given THEN parentArg.value ELSE UnknownParent,
                generateSpanId(i), 0)

\* the children list of span i after every span was pushed to its owner
ChildrenIn(owner, n, i) ==
    SelectSeq([j \in 1..n |-> j], LAMBDA j : owner[j] = i)

TreeHeap(n, owner, types, declared, names, statuses) ==
    [i \in 1..n |->
        LET created == CreatedSpan(types[i], names[i],
                                   ParentArg(owner, i, declared), i)
            attached == [created EXCEPT !.children = ChildrenIn(owner, n, i)]
        IN  IF statuses[i] = "pending" THEN attached
            ELSE finalizeSpan(attached, statuses[i], Absent, Absent, 1)]

TierNames(n, types) == [i \in 1..n |-> TierName(types[i])]

\* every span succeeded; or the root failed; or the root is still pending;
\* or the root succeeded while the spans below it failed and stayed pending
\* in turn; or the root is still pending while the spans below it stayed
\* pending and failed in turn
TreeStatuses(n) ==
    {[i \in 1..n |-> "success"],
     [i \in 1..n |-> IF i = 1 THEN "failed" ELSE "success"],
     [i \in 1..n |-> IF i = 1 THEN "pending" ELSE "success"],
     [i \in 1..n |-> IF i = 1 THEN "success"
                     ELSE IF i % 2 = 0 THEN "failed" ELSE "pending"],
     [i \in 1..n |-> IF i % 2 = 1 THEN "pending" ELSE "failed"]}

\* The names and statuses the callers pass: every span has the name of its
\* tier and the statuses are any of TreeStatuses; or every span succeeded
\* and the name of the first child repeats the words of a validator message.
TreeLabels(n, types) ==
    {[names |-> TierNames(n, types), statuses |-> st] : st \in TreeStatuses(n)}
    \cup {[names |-> [TierNames(n, types) EXCEPT ![2] = PhraseName],
           statuses |-> [i \in 1..n |-> "success"]] : k \in {2} \cap 1..n}

\* the span of the heap that no span owns
TreeRoot == CHOOSE r \in Refs : ~HasOwner(spans, r)

InitTree ==
    /\ \E n \in 1..MaxTreeSpans :
       \E owner \in TreeShapes(n), types \in [1..n -> SpanType],
          declared \in [1..n -> BOOLEAN] :
       \E labels \in TreeLabels(n, types) :
          /\ declared[1]
          /\ spans = TreeHeap(n, owner, types, declared,
                              labels.names, labels.statuses)
          /\ uuids = n
    /\ now = 1
    /\ raised = FALSE
    /\ result = NoResult
    /\ AdapterInit

\* one call of the validator or the result builder on the tree, or calls of
\* the assembler, one after another
NextTree ==
    \/ result = NoResult /\ ValidateExecutionGraph(TreeRoot)
    \/ result.op \in {"none", "collectAllSpans"} /\ CollectAllSpans(TreeRoot)
    \/ \E executionId \in ExecutionIdArgs :
          result = NoResult /\ BuildExecutionResult(TreeRoot, CoreName, executionId)

SpecTree == InitTree /\ [][NextTree]_vars

----------------------------------------------------------------------------
(* The span finalizer: claims C1 to C4, checked under Spec *)

Finalized == {"success", "failed"}

\* C1: finalize on a span that was already finalized is rejected: for every
\* first and second status in {success, failed}, the second call raises.
C1_SecondFinalizeRaises ==
    [][\A s \in Refs : \A first \in Finalized, second \in Finalized :
          (/\ spans[s].status = first
           /\ spans[s].end_time # Null
           /\ FinalizeSpan(s, second, Absent, Absent))
          => raised']_vars

\* C2: finalize with status pending is rejected: the call raises and leaves
\* the span's status and end_time as they were.
C2_PendingFinalizeRejected ==
    [][\A s \in Refs :
          FinalizeSpan(s, "pending", Absent, Absent)
          => /\ raised'
             /\ spans'[s].status = spans[s].status
             /\ spans'[s].end_time = spans[s].end_time]_vars

\* C3: a span's status changes only from pending to success or from pending
\* to failed, so never again once it is success or failed.
C3_StatusChangesOnce ==
    [][\A s \in Refs :
          spans'[s].status # spans[s].status
          => /\ spans[s].status = "pending"
             /\ spans'[s].status \in Finalized]_vars

\* C4: end_time is null exactly while the span's status is pending, and once
\* end_time is set no later call changes it.
C4_EndTimeSetOnce ==
    /\ [](\A s \in Refs : (spans[s].end_time = Null) <=> (spans[s].status = "pending"))
    /\ [][\A s \in Refs :
            spans[s].end_time # Null => spans'[s].end_time = spans[s].end_time]_vars

----------------------------------------------------------------------------
(* The shape of a tree, stated on the heap without the validator *)

Built == result.op = "buildExecutionResult"

Validated == result.op = "validateExecutionGraph"

\* the spans of the tree under r
TreeRefs(h, r) == {c \in 1..Len(h) : Reaches(h, r, c)}

\* the pairs <<p, c>> with c in the children list of p, p in the tree under r
Edges(h, r) ==
    {e \in TreeRefs(h, r) \X (1..Len(h)) :
        \E i \in 1..Len(h[e[1]].children) : h[e[1]].children[i] = e[2]}

ChildSet(h, p) == {h[p].children[i] : i \in 1..Len(h[p].children)}

RepoChildSet(h, r) == {c \in ChildSet(h, r) : h[c].type = "repo"}

AgentChildSet(h, c) == {a \in ChildSet(h, c) : h[a].type = "agent"}

ParentMatches(h, p, c) == h[c].parent_span_id = Some(h[p].span_id)

\* the violations of rules 1 to 6 in the tree under r, rule by rule
Rule1Violations(h, r) == IF h[r].type # "core" THEN {r} ELSE {}

Rule2Violations(h, r) == IF RepoChildSet(h, r) = {} THEN {r} ELSE {}

Rule3Violations(h, r) == ChildSet(h, r) \ RepoChildSet(h, r)

Rule4Violations(h, r) == {c \in RepoChildSet(h, r) : ~ParentMatches(h, r, c)}

Rule5Violations(h, r) == {c \in RepoChildSet(h, r) : AgentChildSet(h, c) = {}}

Rule6Violations(h, r) ==
    {e \in RepoChildSet(h, r) \X (1..Len(h)) :
        e[2] \in AgentChildSet(h, e[1]) /\ ~ParentMatches(h, e[1], e[2])}

NumViolations(h, r) ==
    Cardinality(Rule1Violations(h, r)) + Cardinality(Rule2Violations(h, r))
    + Cardinality(Rule3Violations(h, r)) + Cardinality(Rule4Violations(h, r))
    + Cardinality(Rule5Violations(h, r)) + Cardinality(Rule6Violations(h, r))

\* how many entries of the list fs are in the set of messages ms
CountIn(fs, ms) == Cardinality({k \in 1..Len(fs) : fs[k] \in ms})

\* the words of phrase occur, in this order and next to each other, in msg
Mentions(msg, phrase) ==
    \E i \in 1..(Len(msg) - Len(phrase) + 1) :
        SubSeq(msg, i, i + Len(phrase) - 1) = phrase

AllSucceeded(h, r) ==
    \A c \in TreeRefs(h, r) : h[c].status = "success" /\ h[c].end_time # Null

----------------------------------------------------------------------------
(* The result builder and the validator: claims C5 to C10, under SpecTree *)

\* C5: build_result returns the root span's own status when validation of
\* the tree succeeds, and failed when validation fails.
C5_ResultStatus ==
    Built =>
        result.value.status =
            IF NumViolations(spans, result.root) = 0
            THEN spans[result.root].status
            ELSE "failed"

\* build_result has returned failed for a tree of several spans that fails
\* validation although the root and every other span recorded success
C5_Witness ==
    /\ Built
    /\ Cardinality(TreeRefs(spans, result.root)) >= 2
    /\ NumViolations(spans, result.root) > 0
    /\ AllSucceeded(spans, result.root)
    /\ result.value.status = "failed"

\* The broken shapes, read off the tree: the root is not a core span; the
\* root has no children; a child of the root is not a repo span or a child of
\* a repo child of the root is not an agent span; a span of the tree has a
\* parent_span_id that is not the span_id of the span holding it.
WrongRootTier(h, r) == h[r].type # "core"

NoChildren(h, r) == h[r].children = <<>>

WrongChildTier(h, r) ==
    \/ \E c \in ChildSet(h, r) : h[c].type # "repo"
    \/ \E c \in RepoChildSet(h, r) : \E a \in ChildSet(h, c) : h[a].type # "agent"

MismatchedParent(h, r) ==
    \E e \in Edges(h, r) : ~ParentMatches(h, e[1], e[2])

StructurallyBroken(h, r) ==
    \/ WrongRootTier(h, r)
    \/ NoChildren(h, r)
    \/ WrongChildTier(h, r)
    \/ MismatchedParent(h, r)

ReportedInvalid ==
    /\ ~raised
    /\ result.value.execution_graph.valid = FALSE
    /\ result.value.execution_graph.failure_reasons # <<>>

ParentsConsistent(h, r) == \A e \in Edges(h, r) : ParentMatches(h, e[1], e[2])

\* the hypothesis of C7: a core root with at least one repo child, every
\* repo child with at least one agent child, parent ids consistent
WellFormedAsClaimed(h, r) ==
    /\ h[r].type = "core"
    /\ RepoChildSet(h, r) # {}
    /\ \A c \in RepoChildSet(h, r) : AgentChildSet(h, c) # {}
    /\ ParentsConsistent(h, r)

\* the tree of one core, one repo and one agent span
OneCoreOneRepoOneAgent(h, r) ==
    /\ Cardinality(TreeRefs(h, r)) = 3
    /\ WellFormedAsClaimed(h, r)

ScenarioResult ==
    (Built /\ OneCoreOneRepoOneAgent(spans, result.root)
           /\ AllSucceeded(spans, result.root))
    => /\ result.value.status = "success"
       /\ result.value.execution_graph.valid
       /\ result.value.execution_graph.failure_reasons = <<>>
       /\ result.value.failure_reasons = <<>>
       /\ Len(result.value.execution_graph.all_spans) = 3

\* C7 as claimed: every tree with a core root that has a repo child, whose
\* repo children all have an agent child and whose parent ids are consistent
\* validates with valid = true and no failures; the one-core/one-repo/
\* one-agent tree finalized as success gives status success and 3 spans.
C7_WellFormedValidates ==
    /\ (Validated /\ WellFormedAsClaimed(spans, result.root))
       => result.value = [valid |-> TRUE, failures |-> <<>>]
    /\ ScenarioResult

\* C7 as amended: the same, for the trees in which, besides, every direct
\* child of the root is a repo span.
C7_WellFormedRepoOnlyValidates ==
    /\ (/\ Validated
        /\ WellFormedAsClaimed(spans, result.root)
        /\ ChildSet(spans, result.root) = RepoChildSet(spans, result.root))
       => result.value = [valid |-> TRUE, failures |-> <<>>]
    /\ ScenarioResult

\* build_result has returned success, a valid graph and three spans for the
\* one-core/one-repo/one-agent tree finalized as success
C7_Witness ==
    /\ Built
    /\ OneCoreOneRepoOneAgent(spans, result.root)
    /\ AllSucceeded(spans, result.root)
    /\ result.value.status = "success"
    /\ Len(result.value.execution_graph.all_spans) = 3

ZeroRepoPhrase == <<"zero", "repo-level", "child", "spans">>

\* C8 as claimed: for a root without a child of tier repo, validate returns
\* valid = false and exactly one of its failures mentions "zero repo-level
\* child spans".
C8_OneEntryMentionsZeroRepo ==
    (Validated /\ RepoChildSet(spans, result.root) = {})
    => /\ ~result.value.valid
       /\ Cardinality({k \in 1..Len(result.value.failures) :
             Mentions(result.value.failures[k], ZeroRepoPhrase)}) = 1

\* C8 as amended: for a root without a child of tier repo, validate returns
\* valid = false and exactly one of its failures is the message "Core span
\* has zero repo-level child spans".
C8_OneZeroRepoEntry ==
    (Validated /\ RepoChildSet(spans, result.root) = {})
    => /\ ~result.value.valid
       /\ CountIn(result.value.failures, {ZeroRepoMsg}) = 1

\* validate has returned for a root whose children are all of another tier
\* than repo, with the zero-repo failure among several failures
C8_Witness ==
    /\ Validated
    /\ ChildSet(spans, result.root) # {}
    /\ RepoChildSet(spans, result.root) = {}
    /\ Len(result.value.failures) > 1
    /\ CountIn(result.value.failures, {ZeroRepoMsg}) = 1

\* the positions, in the root's children list, of the repo children that
\* have no agent child
OffendingRepos(h, r) ==
    SelectSeq(h[r].children,
              LAMBDA c : h[c].type = "repo" /\ AgentChildSet(h, c) = {})

ZeroAgentPhrase == <<"has", "zero", "agent-level", "child", "spans">>

\* the failures of the list fs that report a repo span without agent child
ZeroAgentEntries(fs) == SelectSeq(fs, LAMBDA f : Mentions(f, ZeroAgentPhrase))

\* entry f names the repo span c as having no agent child
NamesRepo(h, f, c) ==
    /\ Mentions(f, Quoted(h[c].name))
    /\ Mentions(f, ZeroAgentPhrase)

\* the zero-agent failures of fs are one per offending repo child of r, each
\* naming its repo span, in the order of the children list
OnePerOffendingRepo(h, r, fs) ==
    LET offending == OffendingRepos(h, r)
        entries == ZeroAgentEntries(fs)
    IN  /\ Len(entries) = Len(offending)
        /\ \A i \in 1..Len(offending) : NamesRepo(h, entries[i], offending[i])

\* C9: each repo child of the root without agent children gets its own
\* failure naming that repo span, one per offending repo in the same validate
\* call; build_result on such a tree returns failed with these failures.
C9_EveryAgentlessRepoReported ==
    /\ Validated => OnePerOffendingRepo(spans, result.root, result.value.failures)
    /\ (Built /\ OffendingRepos(spans, result.root) # <<>>)
       => /\ result.value.status = "failed"
          /\ OnePerOffendingRepo(spans, result.root, result.value.failure_reasons)

\* build_result has returned failed for a tree whose root succeeded and has
\* two repo children without agent children, both reported
C9_Witness ==
    /\ Built
    /\ Len(OffendingRepos(spans, result.root)) >= 2
    /\ spans[result.root].status = "success"
    /\ result.value.status = "failed"
    /\ Len(ZeroAgentEntries(result.value.failure_reasons)) >= 2

\* the messages the violations of each rule are reported with
Rule1Msgs(h, r) == {RootTypeMsg(h[r])}

Rule3Msgs(h, r) == {NonRepoChildMsg(h[c]) : c \in Rule3Violations(h, r)}

Rule4Msgs(h, r) == {RepoParentMsg(h[c], h[r]) : c \in Rule4Violations(h, r)}

Rule5Msgs(h, r) == {ZeroAgentMsg(h[c]) : c \in Rule5Violations(h, r)}

Rule6Msgs(h, r) ==
    {AgentParentMsg(h[e[2]], h[e[1]]) : e \in Rule6Violations(h, r)}

\* C10: validate is not fail-fast: the failures list has exactly one entry
\* per violation of the rules 1 to 6, whatever other violations there are.
C10_OneEntryPerViolation ==
    Validated =>
        LET h == spans
            r == result.root
            fs == result.value.failures
        IN  /\ Len(fs) = NumViolations(h, r)
            /\ CountIn(fs, Rule1Msgs(h, r)) = Cardinality(Rule1Violations(h, r))
            /\ CountIn(fs, {ZeroRepoMsg}) = Cardinality(Rule2Violations(h, r))
            /\ CountIn(fs, Rule3Msgs(h, r)) = Cardinality(Rule3Violations(h, r))
            /\ CountIn(fs, Rule4Msgs(h, r)) = Cardinality(Rule4Violations(h, r))
            /\ CountIn(fs, Rule5Msgs(h, r)) = Cardinality(Rule5Violations(h, r))
            /\ CountIn(fs, Rule6Msgs(h, r)) = Cardinality(Rule6Violations(h, r))

\* validate has returned for a tree that breaks rules 1, 3, 4 and 6 at once
C10_Witness ==
    /\ Validated
    /\ Rule1Violations(spans, result.root) # {}
    /\ Rule3Violations(spans, result.root) # {}
    /\ Rule4Violations(spans, result.root) # {}
    /\ Rule6Violations(spans, result.root) # {}
    /\ Len(result.value.failures) >= 4

----------------------------------------------------------------------------
(* The validator rule by rule: claims C11 to C15, under SpecTree *)

RepoParentPhrase == <<"does", "not", "match", "core", "span_id">>

AgentParentPhrase == <<"does", "not", "match", "repo", "span_id">>

\* the entries of the list fs, as a set
Entries(fs) == {fs[k] : k \in 1..Len(fs)}

\* how many entries of the list fs contain the words of phrase
CountMentions(fs, phrase) ==
    Cardinality({k \in 1..Len(fs) : Mentions(fs[k], phrase)})

\* C11: validate reports a parent-pointer failure for every repo child of the
\* root whose parent_span_id is not the root's span_id and for every agent
\* child of a repo child whose parent_span_id is not that repo's span_id, and
\* none for a child whose parent_span_id matches.
C11_ParentPointersChecked ==
    Validated =>
        LET h == spans
            r == result.root
            fs == result.value.failures
        IN  /\ \A c \in RepoChildSet(h, r) :
                  ParentMatches(h, r, c)
                  <=> RepoParentMsg(h[c], h[r]) \notin Entries(fs)
            /\ \A c \in RepoChildSet(h, r) : \A a \in AgentChildSet(h, c) :
                  ParentMatches(h, c, a)
                  <=> AgentParentMsg(h[a], h[c]) \notin Entries(fs)
            /\ CountMentions(fs, RepoParentPhrase)
                  = Cardinality(Rule4Violations(h, r))
            /\ CountMentions(fs, AgentParentPhrase)
                  = Cardinality(Rule6Violations(h, r))

\* validate has returned for a root with a repo child whose parent id
\* matches, a repo child whose parent id does not, and an agent child of a
\* repo child whose parent id does not match that repo
C11_Witness ==
    /\ Validated
    /\ \E c \in RepoChildSet(spans, result.root) :
          ParentMatches(spans, result.root, c)
    /\ Rule4Violations(spans, result.root) # {}
    /\ Rule6Violations(spans, result.root) # {}
    /\ CountMentions(result.value.failures, RepoParentPhrase) >= 1
    /\ CountMentions(result.value.failures, AgentParentPhrase) >= 1

NonRepoPhrase == <<"Core", "span", "has", "non-repo", "child">>

\* the direct children of r of another tier than repo, in children-list order
StrayChildren(h, r) == SelectSeq(h[r].children, LAMBDA c : h[c].type # "repo")

\* the failures of the list fs that report a non-repo child of the root
NonRepoEntries(fs) == SelectSeq(fs, LAMBDA f : Mentions(f, NonRepoPhrase))

\* entry f reports the span c, by name and tier, as a non-repo child
NamesStray(h, f, c) ==
    /\ Mentions(f, NonRepoPhrase \o Quoted(h[c].name))
    /\ Mentions(f, <<"of", "type">> \o Quoted(<<h[c].type>>))

\* C12: every direct child of the root whose tier is not repo produces its
\* own failure entry, one per such child, so a tree with a non-repo direct
\* child of the root is never valid.
C12_OneEntryPerNonRepoChild ==
    /\ Validated =>
          LET stray == StrayChildren(spans, result.root)
              entries == NonRepoEntries(result.value.failures)
          IN  /\ Len(entries) = Len(stray)
              /\ \A i \in 1..Len(stray) : NamesStray(spans, entries[i], stray[i])
              /\ stray # <<>> => ~result.value.valid
    /\ (Built /\ StrayChildren(spans, result.root) # <<>>)
       => /\ ~result.value.execution_graph.valid
          /\ result.value.status = "failed"

\* validate has returned invalid for a core root that has a repo child and
\* two children of other tiers, with one non-repo entry for each of the two
C12_Witness ==
    /\ Validated
    /\ spans[result.root].type = "core"
    /\ RepoChildSet(spans, result.root) # {}
    /\ Len(StrayChildren(spans, result.root)) = 2
    /\ Len(NonRepoEntries(result.value.failures)) = 2
    /\ ~result.value.valid

\* C13: the zero-repo failure is reported if and only if the root has no
\* direct child of tier repo, whatever non-repo children it has: a root with
\* repo children and stray children gets the non-repo failures without the
\* zero-repo failure, and a root whose only children are strays gets both.
C13_ZeroRepoIndependentOfStrays ==
    Validated =>
        LET h == spans
            r == result.root
            fs == result.value.failures
        IN  /\ (ZeroRepoMsg \in Entries(fs)) <=> (RepoChildSet(h, r) = {})
            /\ (RepoChildSet(h, r) # {} /\ StrayChildren(h, r) # <<>>)
               => /\ NonRepoEntries(fs) # <<>>
                  /\ CountIn(fs, {ZeroRepoMsg}) = 0
            /\ (RepoChildSet(h, r) = {} /\ StrayChildren(h, r) # <<>>)
               => /\ NonRepoEntries(fs) # <<>>
                  /\ CountIn(fs, {ZeroRepoMsg}) = 1

\* validate has returned for a core root with one valid repo child (it has
\* an agent child, parent ids matching) and one stray child: the non-repo
\* failure is the only failure
C13_Witness ==
    /\ Validated
    /\ spans[result.root].type = "core"
    /\ Cardinality(RepoChildSet(spans, result.root)) = 1
    /\ Rule4Violations(spans, result.root) = {}
    /\ Rule5Violations(spans, result.root) = {}
    /\ Rule6Violations(spans, result.root) = {}
    /\ Len(StrayChildren(spans, result.root)) = 1
    /\ Len(result.value.failures) = 1
    /\ Len(NonRepoEntries(result.value.failures)) = 1
    /\ ZeroRepoMsg \notin Entries(result.value.failures)

RootTypePhrase == <<"Root", "span", "type", "is">>

\* the failures of the list fs that report the tier of the root
RootTypeEntries(fs) == SelectSeq(fs, LAMBDA f : Mentions(f, RootTypePhrase))

\* C14: when the root has a tier other than core, validate records a failure
\* naming the tier found, returns valid = false, and in the same pass still
\* reports the violations of the other rules by the root's children.
C14_WrongRootStillValidated ==
    (Validated /\ spans[result.root].type # "core") =>
        LET h == spans
            r == result.root
            fs == result.value.failures
        IN  /\ Len(RootTypeEntries(fs)) = 1
            /\ Mentions(RootTypeEntries(fs)[1],
                        RootTypePhrase \o Quoted(<<h[r].type>>))
            /\ ~result.value.valid
            /\ CountIn(fs, {ZeroRepoMsg}) = Cardinality(Rule2Violations(h, r))
            /\ Len(NonRepoEntries(fs)) = Cardinality(Rule3Violations(h, r))
            /\ CountMentions(fs, RepoParentPhrase)
                  = Cardinality(Rule4Violations(h, r))
            /\ Len(ZeroAgentEntries(fs)) = Cardinality(Rule5Violations(h, r))
            /\ CountMentions(fs, AgentParentPhrase)
                  = Cardinality(Rule6Violations(h, r))
            /\ Len(fs) = NumViolations(h, r)

\* validate has returned for a root of tier repo that has a stray child and
\* a repo child without agent child: the root tier, the stray child and the
\* agentless repo are all reported
C14_Witness ==
    /\ Validated
    /\ spans[result.root].type = "repo"
    /\ Rule3Violations(spans, result.root) # {}
    /\ Rule5Violations(spans, result.root) # {}
    /\ Len(RootTypeEntries(result.value.failures)) = 1
    /\ NonRepoEntries(result.value.failures) # <<>>
    /\ ZeroAgentEntries(result.value.failures) # <<>>
    /\ ~result.value.valid

\* What a span can have been through: never finalized; created later and
\* finalized as success with an artifact and an evidence; finalized as
\* failed without any.
Histories ==
    {[start |-> 0, status |-> "pending", end |-> 0,
      artifacts |-> Absent, evidence |-> Absent],
     [start |-> 1, status |-> "success", end |-> 2,
      artifacts |-> Given(<<"artifact-1">>), evidence |-> Given(<<"evidence-1">>)],
     [start |-> 0, status |-> "failed", end |-> 1,
      artifacts |-> Absent, evidence |-> Absent]}

\* the span with the same span_id, parent_span_id, tier, name and children,
\* after the history hist
Relived(span, hist) ==
    LET fresh == [createSpan(span.type, span.name, span.parent_span_id,
                             span.span_id, hist.start)
                     EXCEPT !.children = span.children]
    IN  IF hist.status = "pending" THEN fresh
        ELSE finalizeSpan(fresh, hist.status, hist.artifacts, hist.evidence,
                          hist.end)

\* the heaps of the same shape, tiers, names, span_ids and parent_span_ids
\* as h, whatever the status, times, artifacts and evidence of their spans
Twins(h) ==
    {[i \in 1..Len(h) |-> Relived(h[i], hists[i])] :
        hists \in [1..Len(h) -> Histories]}

\* C15: validation is purely structural: two trees of the same shape, tiers,
\* names, span_ids and parent_span_ids that differ in the status, start_time,
\* end_time, artifacts or evidence of any span, pending spans included, get
\* the same valid flag and the same failures list.
C15_ValidationStructural ==
    Validated =>
        \A twin \in Twins(spans) :
            validateExecutionGraph(twin, result.root) = result.value

\* validate has returned valid for a tree of a core, a repo and an agent span
\* of which one is failed and one still pending, and the tree with the same
\* structure whose spans all succeeded with artifacts and evidence gets the
\* same answer
C15_Witness ==
    /\ Validated
    /\ result.value.valid
    /\ \E a \in TreeRefs(spans, result.root) : spans[a].status = "pending"
    /\ \E a \in TreeRefs(spans, result.root) : spans[a].status = "failed"
    /\ \E twin \in Twins(spans) :
          /\ AllSucceeded(twin, result.root)
          /\ \A a \in TreeRefs(twin, result.root) :
                twin[a].artifacts # <<>> /\ twin[a].start_time # spans[a].start_time
          /\ validateExecutionGraph(twin, result.root) = result.value

----------------------------------------------------------------------------
(* The assembler: claims C16 to C18, under SpecTree *)

Collected == result.op = "collectAllSpans"

\* how many entries of the list ss are the span c
Occurrences(ss, c) == Cardinality({k \in 1..Len(ss) : ss[k] = c})

\* the list ss has one entry per span of the tree under r, the root first
OncePerSpan(h, r, ss) ==
    /\ Len(ss) = Cardinality(TreeRefs(h, r))
    /\ ss[1] = r
    /\ \A c \in TreeRefs(h, r) : Occurrences(ss, c) = 1
    /\ \A k \in 1..Len(ss) : ss[k] \in TreeRefs(h, r)

\* C16: collect_all on a tree of N spans returns exactly N entries, the root
\* first, every span of the tree exactly once, whatever the number and the
\* arrangement of children.
C16_EverySpanOnce ==
    /\ Collected => OncePerSpan(spans, result.root, result.value)
    /\ Built => OncePerSpan(spans, result.root,
                            result.value.execution_graph.all_spans)

\* collect_all has returned four entries for a tree of four spans in which a
\* span has two children and one of them has a child of its own
C16_Witness ==
    /\ Collected
    /\ Cardinality(TreeRefs(spans, result.root)) = 4
    /\ \E p \in Refs : Len(spans[p].children) = 2
    /\ \E p \in Refs : p # result.root /\ spans[p].children # <<>>
    /\ Len(result.value) = 4

\* the place of the span c in the list ss
Pos(ss, c) == CHOOSE k \in 1..Len(ss) : ss[k] = c

\* the list ss is the tree under r in pre-order
PreOrder(h, r, ss) ==
    /\ \A a \in TreeRefs(h, r) : \A d \in TreeRefs(h, a) :
          d # a => Pos(ss, a) < Pos(ss, d)
    /\ \A p \in TreeRefs(h, r) : \A i, j \in 1..Len(h[p].children) :
          i < j => \A d \in TreeRefs(h, h[p].children[i]) :
                      Pos(ss, d) < Pos(ss, h[p].children[j])

\* C17: collect_all returns the spans in pre-order: each span before all its
\* descendants, the whole subtree of a child before the next sibling, the
\* siblings in the order of the children list; and a second call on the
\* unchanged tree returns the same sequence.
C17_PreOrder ==
    /\ [](Collected => PreOrder(spans, result.root, result.value))
    /\ [][(Collected /\ CollectAllSpans(result.root) /\ spans' = spans)
            => result'.value = result.value]_vars

\* collect_all has returned root, first child, grandchild, second child for
\* a root with two children the first of which has a child
C17_Witness ==
    /\ Collected
    /\ Len(spans[result.root].children) = 2
    /\ Len(spans[spans[result.root].children[1]].children) = 1
    /\ result.value =
          << result.root,
             spans[result.root].children[1],
             spans[spans[result.root].children[1]].children[1],
             spans[result.root].children[2] >>

\* the step is a call of collect_all, validate or build_result on the tree
\* under r
TreeCall(r) ==
    \/ result'.op = "collectAllSpans" /\ CollectAllSpans(r)
    \/ result'.op = "validateExecutionGraph" /\ ValidateExecutionGraph(r)
    \/ \E executionId \in ExecutionIdArgs :
          /\ result'.op = "buildExecutionResult"
          /\ BuildExecutionResult(r, CoreName, executionId)

SpanFields ==
    {"span_id", "parent_span_id", "type", "name", "status", "start_time",
     "end_time", "artifacts", "evidence", "children"}

\* C18: collect_all, validate and build_result do not mutate the tree: after
\* the call every span reachable from the root has the span_id,
\* parent_span_id, tier, name, status, timestamps, artifacts, evidence and
\* children list it had before, and each collected span carries the
\* parent_span_id it had before the call.
C18_TreeNotMutated ==
    [][\A r \in Refs :
         TreeCall(r) =>
            /\ Len(spans') = Len(spans)
            /\ \A c \in TreeRefs(spans, r) : \A f \in SpanFields :
                  spans'[c][f] = spans[c][f]
            /\ result'.op = "collectAllSpans" =>
                  \A k \in 1..Len(result'.value) :
                     spans'[result'.value[k]].parent_span_id
                        = spans[result'.value[k]].parent_span_id]_vars

\* collect_all has returned the four spans of a tree, the root with the null
\* parent_span_id and every other span with the span_id of its owner as
\* parent_span_id, as they were created, one span finalized as failed and
\* one still pending
C18_Witness ==
    /\ Collected
    /\ Len(result.value) = 4
    /\ spans[result.root].parent_span_id = Null
    /\ ParentsConsistent(spans, result.root)
    /\ \E k \in 1..Len(result.value) : spans[result.value[k]].status = "failed"
    /\ \E k \in 1..Len(result.value) : spans[result.value[k]].status = "pending"
    /\ \A k \in 1..Len(result.value) : spans[result.value[k]].start_time = 0

----------------------------------------------------------------------------
(* The context builder and the graph: claims C19 and C20, under SpecGraph *)

\* an identifier argument that is missing or the empty string
MissingOrEmpty(arg) == ~arg.given \/ arg.value = ""

\* C19: build_context requires execution_id, core_span_id and parent_span_id
\* to be present and non-empty: a call in which one of them is missing or
\* the empty string raises an error instead of returning a context.
C19_ContextRequiresIds ==
    [][\A executionId \in ContextArgs({"exec-1"}),
          coreSpanId \in ContextArgs(CoreSpanIds(spans)),
          parentSpanId \in ContextArgs(SpanIds(spans)) :
          (/\ result'.op = "buildExecutionContext"
           /\ BuildExecutionContext(executionId, coreSpanId, parentSpanId)
           /\ \/ MissingOrEmpty(executionId)
              \/ MissingOrEmpty(coreSpanId)
              \/ MissingOrEmpty(parentSpanId))
          => raised']_vars

\* what reading the span r, and the spans below it, gives
RECURSIVE Snapshot(_, _)
Snapshot(h, r) ==
    [h[r] EXCEPT !.children =
        [i \in 1..Len(h[r].children) |-> Snapshot(h, h[r].children[i])]]

\* what the root_span, all_spans, valid and failure_reasons of graph report
GraphReport(h, graph) ==
    [ root_span       |-> Snapshot(h, graph.root_span),
      all_spans       |-> [k \in 1..Len(graph.all_spans) |->
                              Snapshot(h, graph.all_spans[k])],
      valid           |-> graph.valid,
      failure_reasons |-> graph.failure_reasons ]

\* C20: an Execution Graph is immutable once constructed: after build_result
\* has returned, no later operation on the spans of the tree (finalizing a
\* span, appending a child, appending artifacts) changes what the graph's
\* root_span, all_spans, valid and failure_reasons report.
C20_GraphImmutable ==
    [][(/\ Built
        /\ result'.op = result.op
        /\ result'.value = result.value)
       => GraphReport(spans', result.value.execution_graph)
             = GraphReport(spans, result.value.execution_graph)]_vars

----------------------------------------------------------------------------
(* The result builder: claims C21 and C22 *)

\* C21: the failure_reasons of the result build_result returns are, entry
\* for entry and in the same order, the failures validate returns on the
\* same root; the graph's failure_reasons are the same list; and the list is
\* empty exactly when the graph's valid flag is true.
C21_ReasonsAreValidatorFailures ==
    Built =>
        LET validation == validateExecutionGraph(spans, result.root)
            graph == result.value.execution_graph
        IN  /\ Len(result.value.failure_reasons) = Len(validation.failures)
            /\ \A k \in 1..Len(validation.failures) :
                  result.value.failure_reasons[k] = validation.failures[k]
            /\ graph.failure_reasons = result.value.failure_reasons
            /\ (result.value.failure_reasons = <<>>) <=> graph.valid
            /\ Len(result.value.failure_reasons) = NumViolations(spans, result.root)

\* build_result has returned, for a tree that breaks several rules, the
\* failures of the validator, several of them, in the result and in the graph
C21_Witness ==
    /\ Built
    /\ NumViolations(spans, result.root) >= 3
    /\ Len(result.value.failure_reasons) >= 3
    /\ result.value.failure_reasons
          = validateExecutionGraph(spans, result.root).failures
    /\ result.value.execution_graph.failure_reasons
          = result.value.failure_reasons
    /\ ~result.value.execution_graph.valid

\* the identifiers randomUUID() has handed out so far
DrawnIds == {randomUUID(j) : j \in 1..uuids}

\* C22: the execution_id of the result build_result returns equals the
\* execution_id of its execution_graph: both are the supplied execution_id
\* when one is given, and both are the same single freshly generated id
\* when none is given.
C22_OneExecutionId ==
    [][\A r \in Refs : \A executionId \in ExecutionIdArgs :
         (/\ result'.op = "buildExecutionResult"
          /\ BuildExecutionResult(r, CoreName, executionId))
         => /\ result'.value.execution_id
                 = result'.value.execution_graph.execution_id
            /\ executionId.given
                 => /\ result'.value.execution_id = executionId.value
                    /\ uuids' = uuids
            /\ ~executionId.given
                 => /\ result'.value.execution_id \notin DrawnIds
                    /\ result'.value.execution_id = randomUUID(uuids')
                    /\ uuids' = uuids + 1]_vars

\* build_result, called without execution_id on a tree of three spans or
\* more, has returned a result and a graph that carry the same generated id,
\* which is the id of no span
C22_Witness ==
    /\ Built
    /\ Cardinality(TreeRefs(spans, result.root)) >= 3
    /\ uuids = Len(spans) + 1
    /\ result.value.execution_id = randomUUID(uuids)
    /\ result.value.execution_id \notin SpanIds(spans)
    /\ result.value.execution_graph.execution_id = result.value.execution_id

----------------------------------------------------------------------------
(* The span factory and the finalizer: claims C23 to C25 *)

\* the span is as the factory must return it for this tier and parent
FreshSpan(span, type, parent, before) ==
    /\ span.type = type
    /\ span.status = "pending"
    /\ span.end_time = Null
    /\ span.artifacts = <<>>
    /\ span.evidence = <<>>
    /\ span.children = <<>>
    /\ span.parent_span_id = parent
    /\ span.span_id \notin SpanIds(before)

\* C23: every span returned by create_core, create_repo or create_agent has
\* the tier of the call used, status pending, no end_time, empty artifacts,
\* evidence and children lists, the parent_span_id given as argument (none
\* for create_core called without a parent), and a span_id different from
\* that of every span created before it.
C23_CreatedSpans ==
    [][/\ \A parent \in CoreParentArgs(spans) :
            (Len(spans') > Len(spans) /\ CreateCoreSpan(TierName("core"), parent))
            => FreshSpan(spans'[Len(spans')], "core",
                         IF parent.given THEN Some(parent.value) ELSE Null,
                         spans)
       /\ \A parent \in SpanIds(spans) \cup {UnknownParent} :
            (Len(spans') > Len(spans) /\ CreateRepoSpan(TierName("repo"), parent))
            => FreshSpan(spans'[Len(spans')], "repo", Some(parent), spans)
       /\ \A parent \in SpanIds(spans) \cup {UnknownParent} :
            (Len(spans') > Len(spans) /\ CreateAgentSpan(TierName("agent"), parent))
            => FreshSpan(spans'[Len(spans')], "agent", Some(parent), spans)]_vars

\* a core span was created without parent and then a core span with the
\* first one's span_id as parent: the second is pending, has no end_time,
\* empty lists, and a span_id of its own
C23_Witness ==
    /\ Len(spans) = 2
    /\ spans[1].type = "core" /\ spans[1].parent_span_id = Null
    /\ FreshSpan(spans[2], "core", Some(spans[1].span_id), <<spans[1]>>)

\* the list after is the list before with the supplied entries, if any,
\* added at its end in the order given
Appended(before, supplied, after) ==
    LET added == IF supplied.given THEN supplied.value ELSE <<>>
    IN  /\ Len(after) = Len(before) + Len(added)
        /\ \A k \in 1..Len(before) : after[k] = before[k]
        /\ \A k \in 1..Len(added) : after[Len(before) + k] = added[k]
        /\ ~supplied.given => after = before

\* C24: finalize appends the supplied artifacts and evidence to the end of
\* the span's lists in the order given, keeps every entry already present in
\* its position, and leaves both lists unchanged when none are supplied.
C24_FinalizeAppends ==
    [][\A s \in Refs : \A status \in SpanStatus :
       \A artifacts \in ArtifactLists : \A evidence \in EvidenceLists :
          (spans'[s].status = status
           /\ FinalizeSpan(s, status, artifacts, evidence))
          => /\ Appended(spans[s].artifacts, artifacts, spans'[s].artifacts)
             /\ Appended(spans[s].evidence, evidence, spans'[s].evidence)]_vars

\* a span finalized with one artifact and one evidence, then with two more
\* artifacts, holds the three artifacts in the order supplied and the evidence
C24_Witness ==
    \E s \in Refs :
        /\ spans[s].artifacts = <<"artifact-1", "artifact-2", "artifact-3">>
        /\ spans[s].evidence = <<"evidence-1">>
        /\ spans[s].status \in Finalized

\* the fields finalize must leave alone
KeptFields == {"span_id", "parent_span_id", "type", "name", "start_time", "children"}

\* C25: finalize returns the very span it was given, not a new one, and
\* changes only that span's status, end_time, artifacts and evidence: its
\* span_id, parent_span_id, tier, name, start_time and children list, and
\* every field of every other span, are unchanged by the call.
C25_FinalizeFrame ==
    [][\A s \in Refs : \A status \in SpanStatus :
          FinalizeSpan(s, status, Absent, Absent)
          => /\ Len(spans') = Len(spans)
             /\ \A f \in KeptFields : spans'[s][f] = spans[s][f]
             /\ spans'[s].status = status
             /\ \A o \in Refs \ {s} : spans'[o] = spans[o]]_vars

\* a span created at clock 0 that holds a child was finalized later: it has
\* its start_time and its children list, and the child is still pending
C25_Witness ==
    \E s \in Refs, c \in Refs :
        /\ spans[s].children = <<c>>
        /\ spans[s].status = "success"
        /\ spans[s].start_time = 0
        /\ spans[s].end_time \notin {Null, Some(0)}
        /\ spans[c].status = "pending"
        /\ spans[c].end_time = Null

----------------------------------------------------------------------------
(* The validator and the result builder again: claims C29 and C30, under  *)
(* SpecTree                                                               *)

\* the spans of the tree under r that are of the given tier
SpansOfTier(h, r, type) == {c \in TreeRefs(h, r) : h[c].type = type}

\* the three-tier shape in full: the children of the root are repo spans,
\* the children of every repo span are agent spans declaring that repo span
\* as their parent, and the agent spans have no children
ThreeTierShape(h, r) ==
    /\ \A c \in ChildSet(h, r) : h[c].type = "repo"
    /\ \A p \in SpansOfTier(h, r, "repo") : \A a \in ChildSet(h, p) :
          h[a].type = "agent" /\ ParentMatches(h, p, a)
    /\ \A a \in SpansOfTier(h, r, "agent") : h[a].children = <<>>

\* what the validator looks at: the root is a core span, its children are
\* repo spans declaring it as their parent, there is at least one of them,
\* each of them has at least one agent child, and each agent child of each
\* of them declares it as its parent
InspectedShape(h, r) ==
    /\ h[r].type = "core"
    /\ ChildSet(h, r) # {}
    /\ \A c \in ChildSet(h, r) :
          /\ h[c].type = "repo"
          /\ ParentMatches(h, r, c)
          /\ \E a \in ChildSet(h, c) : h[a].type = "agent"
          /\ \A a \in ChildSet(h, c) : h[a].type = "agent" => ParentMatches(h, c, a)

C30_StatusFromRootAndValidity ==
    Built =>
        LET rootStatus == spans[result.root].status
            valid == result.value.execution_graph.valid
        IN  /\ result.value.status = (IF valid THEN rootStatus ELSE "failed")
            /\ (valid /\ rootStatus = "pending") => result.value.status = "pending"

\* build_result has returned pending for a valid tree whose root is still
\* pending while a span below it failed
C30_Witness ==
    /\ Built
    /\ result.value.execution_graph.valid
    /\ spans[result.root].status = "pending"
    /\ \E c \in TreeRefs(spans, result.root) : spans[c].status = "failed"
    /\ result.value.status = "pending"

----------------------------------------------------------------------------
(* The adapters: claims C26 to C28, under SpecAdapter *)

\* C26: every span-emitting adapter operation creates exactly one agent span
\* and finalizes it once before it completes, with success when it returns
\* and with failed when it throws, so the span it leaves in lastSpans is
\* never pending and is never finalized again.
C26_OneSpanFinalizedOnce ==
    /\ [](\A a \in Adapters :
            /\ Len(lastSpans[a]) <= 1
            /\ \A k \in 1..Len(lastSpans[a]) :
                  /\ spans[lastSpans[a][k]].type = "agent"
                  /\ spans[lastSpans[a][k]].status \in Finalized
                  /\ spans[lastSpans[a][k]].end_time # Null)
    /\ [][/\ \A i \in 1..Len(spans) : spans'[i] = spans[i]
          /\ \A c \in Callers : \A throws \in BOOLEAN :
                Operation(c, throws)
                => /\ Len(spans') = Len(spans) + 1
                   /\ spans'[Len(spans')].type = "agent"
                   /\ spans'[Len(spans')].status
                         = IF throws THEN "failed" ELSE "success"
                   /\ spans'[Len(spans')].end_time # Null
                   /\ lastSpans'[callers[c].adapter] = <<Len(spans')>>
                   /\ raised' = throws]_vars

\* an operation of connector-hub returned and an operation of another
\* adapter threw: the first left a span finalized as success with its
\* evidence, the second a span finalized as failed
C26_Witness ==
    /\ lastSpans["connector-hub"] # <<>>
    /\ spans[lastSpans["connector-hub"][1]].status = "success"
    /\ spans[lastSpans["connector-hub"][1]].evidence # <<>>
    /\ \E a \in Adapters \ {"connector-hub"} :
          /\ lastSpans[a] # <<>>
          /\ spans[lastSpans[a][1]].status = "failed"
          /\ spans[lastSpans[a][1]].end_time # Null

\* C27: the execution context is not retained beyond the call it
\* accompanies: when two callers share one adapter instance and their
\* setExecutionContext and operation calls interleave in any order, the
\* agent span each operation emits has the parent_span_id of the context
\* its own caller set, never that of the other caller's context.
C27_OwnContextParent ==
    \A c \in Callers :
        (callers[c].context # Null /\ callers[c].span # Null)
        => spans[callers[c].span[1]].parent_span_id
              = Some(callers[c].context[1].parent_span_id.value)

\* C28: getLastExecutionSpans returns the spans of the caller's own last
\* operation: when two callers each run an operation on the same adapter
\* instance and then read getLastExecutionSpans, in any interleaving, each
\* receives exactly the one agent span its own operation created.
C28_OwnLastSpans ==
    \A c \in Callers :
        callers[c].read # Null => callers[c].read[1] = <<callers[c].span[1]>>

====
